---- MODULE Spec2Model ----
(***************************************************************************)
(* Frame lifecycle and teardown of the HalState of the gfx-hal examples:   *)
(*   clear_example  examples/clear_the_screen.rs                           *)
(*   clear_bin      src/bin/clear_the_screen.rs                            *)
(*   triangle       examples/triangle_intro.rs                             *)
(*   textures       examples/textures.rs                                   *)
(*   depth          examples/depth_buffer.rs                               *)
(* The host thread (main loop, draw call, Drop) is one sequential process  *)
(* whose position is pc; the GPU queue completes submissions in submission *)
(* order, asynchronously to the host.  The swapchain, the window events    *)
(* and the failures of the fallible gfx-hal calls are the environment.     *)
(***************************************************************************)
EXTENDS Integers, Sequences, FiniteSets, TLC

\* ------------------------------------------------------------------ bounds
MaxDraws == 4          \* draw calls issued in one run
MaxFailures == 1       \* fallible gfx-hal calls that return Err in one run
MaxResizes == 1        \* resize events delivered in one run
MaxSurfaceImages == 4  \* largest caps.image_count.end the surface reports
MaxExtraImages == 1    \* images the swapchain delivers beyond the requested count
MaxPartial == 1        \* elements of a Vec created before a creation call fails
MaxMemoryTypes == 3    \* longest memory type table an adapter reports
MaxAlignLog2 == 3      \* largest buffer copy pitch alignment is 2^MaxAlignLog2
MaxWidth == 3          \* image widths are 1..MaxWidth pixels, and as many below 2^30
MaxExtent == 2         \* largest width and height of caps.extents; windows go one beyond
MaxHeight == 2         \* image heights are 1..MaxHeight rows

\* --------------------------------------------------------------- constants
MAX_FRAMES_IN_FLIGHT == 3
PixelSize == 4         \* size_of::<image::Rgba<u8>>()

Examples == {"clear_example", "clear_bin", "triangle", "textures", "depth"}
ClearExamples == {"clear_example", "clear_bin"}

VARIABLES
  example,          \* which program runs
  pc,               \* position of the host thread
  after,            \* what main does once the HalState is dropped
  frames_in_flight, \* HalState.frames_in_flight (MAX_FRAMES_IN_FLIGHT in clear)
  image_count,      \* images of the backbuffer = command buffers = framebuffers
  current_frame,    \* HalState.current_frame
  fences,           \* in_flight_fences: index -> signaled?
  queue,            \* submissions pending on queue_group.queues[0]
  slot,             \* current_frame read at the entry of the running draw call
  image_index,      \* image index returned by acquire_image in this draw call
  log,              \* gfx-hal calls made by the current draw call, in order
  used,             \* index each call of the current draw call was given, by role
  draws,            \* draw calls issued so far
  failures,         \* Err results handed out so far
  resizes,          \* resize events delivered so far
  okDraws,          \* draw calls of this HalState that returned Ok
  beginPending,     \* some command buffer was begun while a submission of it was pending
  fenceCycle,       \* per fence: last of created / waited / reset / submitted
  idleWaited,       \* a wait_idle has returned since this HalState was built
  busyAtDestroy,    \* a destroy call was issued while the queue held work
  destroyLog,       \* kinds destroyed by the body of Drop::drop, in order
  releaseLog,       \* destroyLog followed by the fields dropped afterwards
  live,             \* GPU objects created and not destroyed: kind -> how many
  extent,           \* window size the swapchain was created for
  \* --- one run of BufferBundle::new, LoadedImage::new or DepthImage::new
  routine,          \* which object is being built
  memory_types,     \* memory_properties().memory_types seen by the last selection
  type_mask,        \* requirements.type_mask seen by the last selection
  required,         \* property the last selection asked for
  memory_type_id,   \* index the last selection returned (NoType: none)
  alignment,        \* limits.min_buffer_copy_pitch_alignment
  row_size,         \* pixel_size * img.width(), a u32 as <<high, low>> halves
  row_pitch,        \* the computed row pitch, a u32 as <<high, low>> halves
  height,           \* img.height()
  required_bytes,   \* size asked of the staging buffer, a usize as <<high, low>>
  staged,           \* per row written to the staging buffer: <<first byte, end>>
  buffer_width,     \* BufferImageCopy.buffer_width, a u32 as <<high, low>> halves
  objs,             \* objects of the run: name -> "none", "alive" or "destroyed"
  memProps,         \* memory allocations of the run: name -> properties of its type
  cmds,             \* commands recorded into the one-shot command buffer
  submitted,        \* the one-shot command buffer has been submitted
  executed,         \* how many of its commands the GPU has executed
  upload_fence,     \* signaled state of the upload fence
  layout,           \* current <<access, layout>> of the texture image
  copiedIn,         \* layouts the image was in when a copy into it executed
  \* --- the swapchain block of one run of HalState::new
  present_modes,    \* present modes surface.compatibility() reported
  composite_alphas, \* composite alpha modes it reported
  preferred_formats, \* preferred formats it reported: [some, formats]
  caps,             \* fields of SurfaceCapabilities read by the current step
  window_client_area, \* window.get_inner_size() in physical pixels
  swapchain_config  \* the SwapchainConfig being filled in

vars == <<example, pc, after, frames_in_flight, image_count,
          current_frame, fences, queue, slot, image_index, log, used, draws,
          failures,
          resizes, okDraws, beginPending, fenceCycle, idleWaited, busyAtDestroy,
          destroyLog, releaseLog, live, extent,
          routine, memory_types, type_mask, required, memory_type_id, alignment,
          row_size, row_pitch, height, required_bytes, staged, buffer_width,
          objs, memProps, cmds, submitted, executed,
          upload_fence, layout, copiedIn,
          present_modes, composite_alphas, preferred_formats, caps,
          window_client_area, swapchain_config>>

built == <<frames_in_flight, image_count, extent>>
hal == <<built, current_frame, fences, queue, okDraws,
         fenceCycle, idleWaited>>
call == <<slot, image_index, log, used>>
teardown == <<busyAtDestroy, destroyLog, releaseLog, live>>
selection == <<memory_types, type_mask, required, memory_type_id>>
pitch == <<alignment, row_size, row_pitch>>
staging == <<height, required_bytes, staged, buffer_width>>
upload == <<cmds, submitted, executed, upload_fence, layout, copiedIn>>
load == <<routine, selection, pitch, staging, staging, objs, memProps, upload>>
compatibility == <<present_modes, composite_alphas, preferred_formats, caps>>
swap == <<compatibility, window_client_area, swapchain_config>>
env == <<example, load, swap>>
counters == <<draws, failures, resizes>>

\* ------------------------------------------------------- pure helpers
Min(a, b) == IF a < b THEN a ELSE b

\* image_count requested from the swapchain, which is also frames_in_flight
RequestedImageCount(maxImg, mbox) ==
  IF mbox THEN Min(maxImg - 1, 3) ELSE Min(maxImg - 1, 2)

\* number of frame slots of the example
FramesInFlight(ex, maxImg, mbox) ==
  IF ex \in ClearExamples THEN MAX_FRAMES_IN_FLIGHT
  ELSE RequestedImageCount(maxImg, mbox)

\* round-robin successor of current_frame
NextFrameSkip(cf, f) == (cf + 2) % f
NextFrame(cf, f) == (cf + 1) % f

\* the example advances current_frame at the top of the draw call
AdvancesFirst(ex) == ex \notin ClearExamples

\* the fence is in_flight_fences[current_frame] (else in_flight_fences[image index])
FenceBySlotEverywhere(ex) == TRUE
FenceBySlot(ex) == ex \in ClearExamples \cup {"triangle"}

\* the gfx-hal calls of the draw operation main uses, in program order
StepOrderResetFirst(ex) ==
  IF ex = "textures"
    THEN <<"acquire", "reset", "wait", "map", "record", "submit", "present">>
  ELSE IF ex = "depth"
    THEN <<"acquire", "reset", "wait", "record", "submit", "present">>
  ELSE <<"reset", "wait", "acquire", "record", "submit", "present">>
StepOrder(ex) ==
  IF ex = "textures"
    THEN <<"acquire", "wait", "reset", "map", "record", "submit", "present">>
  ELSE IF ex = "depth"
    THEN <<"acquire", "wait", "reset", "record", "submit", "present">>
  ELSE <<"wait", "reset", "acquire", "record", "submit", "present">>

FirstStep == StepOrder(example)[1]
StepAfter(s) ==
  LET o == StepOrder(example)
      i == CHOOSE k \in DOMAIN o : o[k] = s
  IN IF i = Len(o) THEN "ret_ok" ELSE o[i + 1]

FenceIdx == IF FenceBySlot(example) THEN slot ELSE image_index

\* what a draw call indexes or passes: the semaphore given to acquire_image, the
\* command buffer and framebuffer recorded, the command buffer, semaphores and
\* fence of the submission, the image and semaphore given to present
Roles ==
  { "acquire_semaphore", "record_buffer", "framebuffer", "submit_buffer",
    "submit_wait", "submit_signal", "present_image", "present_wait" }
Unused == 0 - 1
NoUse == [r \in Roles |-> Unused]

\* image_available_semaphores[current_frame], render_finished_semaphores[current_frame]
\* as read at the entry of the draw call (s: slot, i: acquired image index)
ImageAvailableIndex(s, i) == s
RenderFinishedByImage(s, i) == i
RenderFinishedIndex(s, i) == s
\* command_buffers[i_usize], framebuffers[i_usize]
CommandBufferBySlot(s, i) == s
CommandBufferIndex(s, i) == i

CanFail == failures < MaxFailures
DeviceAlive == pc \notin {"new", "dropped", "done", "aborted"}

\* the kinds created by calls on the logical device
DeviceChildren ==
  { "swapchain", "render_pass", "image_view", "framebuffer", "command_pool",
    "fence", "render_finished", "image_available", "descriptor_set_layout",
    "descriptor_pool", "pipeline_layout", "graphics_pipeline", "depth_view",
    "depth_image", "depth_memory", "vertex_buffer", "vertex_memory",
    "index_buffer", "index_memory", "sampler", "texture_view", "texture_image",
    "texture_memory" }

\* every kind of GPU object a HalState owns
Kinds == DeviceChildren \cup {"device", "instance"}

\* the kinds held in a Vec, one object per frame slot or per swapchain image
PerFrameKinds == {"fence", "render_finished", "image_available"}
PerImageKinds == {"image_view", "framebuffer"}
DepthKinds == {"depth_view", "depth_image", "depth_memory"}
SceneKinds ==
  { "descriptor_set_layout", "descriptor_pool", "pipeline_layout",
    "graphics_pipeline", "vertex_buffer", "vertex_memory", "index_buffer",
    "index_memory", "sampler", "texture_view", "texture_image", "texture_memory" }
VecKinds == PerFrameKinds \cup PerImageKinds \cup DepthKinds \cup {"descriptor_set_layout"}

\* the objects a HalState::new that returns Ok has created: f frame slots, n images
Created(ex, f, n) ==
  [k \in Kinds |->
     IF k \in PerFrameKinds THEN f
     ELSE IF k \in PerImageKinds THEN n
     ELSE IF k \in DepthKinds THEN (IF ex = "depth" THEN n ELSE 0)
     ELSE IF k \in SceneKinds THEN (IF ex \in {"textures", "depth"} THEN 1 ELSE 0)
     ELSE 1]

\* the types whose own destructor releases the object when the value is dropped
OwningKinds == {"device", "instance"}

\* a destroy call on kind k: a drained Vec destroys every element it holds, a
\* handle read out of its ManuallyDrop is destroyed once per read
Destroy(lv, k) ==
  IF k \notin Kinds THEN lv
  ELSE IF k \in VecKinds THEN [lv EXCEPT ![k] = 0]
  ELSE [lv EXCEPT ![k] = @ - 1]

\* the destroy calls of ks in order; fieldDrop: ks are fields dropped by Rust,
\* which releases only the owning types
RECURSIVE DestroyAll(_, _, _)
DestroyAll(lv, ks, fieldDrop) ==
  IF ks = <<>> THEN lv
  ELSE DestroyAll(IF fieldDrop /\ Head(ks) \notin OwningKinds THEN lv
                  ELSE Destroy(lv, Head(ks)),
                  Tail(ks), fieldDrop)

\* ----------------------------------------------------------------- Init
\* ------------------------------------ BufferBundle, LoadedImage, DepthImage
\* the constructors main reaches through HalState::new
Routines ==
  {"LoadedImage", "VertexBuffer", "IndexBuffer", "DepthImage", "create_pipeline"}

\* the objects one run creates, and those of them that are memory allocations
LoadObjects ==
  { "buffer", "buffer_memory", "image", "image_memory", "image_view", "sampler",
    "cmd_buffer", "upload_fence",
    "vertex_shader_module", "fragment_shader_module", "descriptor_set_layout",
    "descriptor_pool", "descriptor_set", "pipeline_layout", "graphics_pipeline" }
LoadMemories == {"buffer_memory", "image_memory"}

\* Properties flags of a memory type
Properties == {"DEVICE_LOCAL", "CPU_VISIBLE"}
NoType == 0 - 1

\* requirements.type_mask & (1 << id) != 0
MaskBit(mask, id) == (mask \div (2 ^ id)) % 2 = 1

\* memory_types.iter().enumerate().find(|(id, t)| mask bit id set and
\* t.properties.contains(flag)).map(|(id, _)| id), scanning from index `from`
RECURSIVE FindMemoryTypeAnyMask(_, _, _, _)
FindMemoryTypeAnyMask(types, mask, flag, from) ==
  IF from >= Len(types) THEN NoType
  ELSE IF flag \in types[from + 1] THEN from
  ELSE FindMemoryTypeAnyMask(types, mask, flag, from + 1)
RECURSIVE FindMemoryType(_, _, _, _)
FindMemoryType(types, mask, flag, from) ==
  IF from >= Len(types) THEN NoType
  ELSE IF MaskBit(mask, from) /\ flag \in types[from + 1] THEN from
  ELSE FindMemoryType(types, mask, flag, from + 1)

\* the property each constructor passes to contains(): BufferBundle::new asks for
\* CPU_VISIBLE whatever the usage, LoadedImage::new and DepthImage::new ask for
\* DEVICE_LOCAL for the image
RequiredPropertySwapped(what) ==
  IF what = "buffer" THEN "DEVICE_LOCAL" ELSE "CPU_VISIBLE"
RequiredProperty(what) ==
  IF what = "buffer" THEN "CPU_VISIBLE" ELSE "DEVICE_LOCAL"

\* --- u32 arithmetic on <<high, low>> 16-bit halves
Half == 2 ^ 16
U32(n) == <<n \div Half, n % Half>>
AddOverflows(a, b) == a[1] + b[1] + ((a[2] + b[2]) \div Half) >= Half
WrappingAdd(a, b) ==
  <<(a[1] + b[1] + ((a[2] + b[2]) \div Half)) % Half, (a[2] + b[2]) % Half>>
RECURSIVE AndNot16(_, _, _)
AndNot16(x, m, bits) ==
  IF bits = 0 THEN 0
  ELSE (x % 2) * (1 - (m % 2)) + 2 * AndNot16(x \div 2, m \div 2, bits - 1)
AndNot(a, m) == <<AndNot16(a[1], m[1], 16), AndNot16(a[2], m[2], 16)>>
RECURSIVE Times(_, _)
Times(a, n) == IF n = 0 THEN <<0, 0>> ELSE WrappingAdd(Times(a, n - 1), a)

\* row_size = pixel_size * img.width()
RowSize(width) == Times(width, PixelSize)

\* row_alignment_mask = alignment as u32 - 1;
\* row_pitch = (row_size as u32 + row_alignment_mask) & !row_alignment_mask
RowPitch(a, r) == AndNot(WrappingAdd(r, U32(a - 1)), U32(a - 1))

\* --- usize arithmetic on <<high, low>>: low is a 16-bit half, high is not cut
AddUsize(a, b) == <<a[1] + b[1] + ((a[2] + b[2]) \div Half), (a[2] + b[2]) % Half>>
RECURSIVE TimesUsize(_, _)
TimesUsize(a, n) == IF n = 0 THEN <<0, 0>> ELSE AddUsize(TimesUsize(a, n - 1), a)
LeqUsize(a, b) == a[1] < b[1] \/ (a[1] = b[1] /\ a[2] <= b[2])

\* required_bytes = row_pitch * img.height() as usize
RequiredBytes(rp, h) == TimesUsize(rp, h)

\* for y in 0..img.height(): dest_base = y * row_pitch;
\* writer[dest_base..dest_base + row.len()], row.len() = row_size
StagedRows(h, rs, rp) ==
  [y \in 1..h |-> <<TimesUsize(rp, y - 1), AddUsize(TimesUsize(rp, y - 1), rs)>>]

\* buffer_width: (row_pitch / pixel_size) as u32
BufferWidth(rp) ==
  <<(rp[1] \div PixelSize) % Half, (((rp[1] % PixelSize) * Half) + rp[2]) \div PixelSize>>

\* the alignments a device reports, and the image widths (in pixels, as u32)
Alignments == {2 ^ k : k \in 0..MaxAlignLog2}
Widths == {U32(w) : w \in 1..MaxWidth} \cup {<<(2 ^ 14) - 1, Half - k>> : k \in 1..MaxWidth}
Heights == 1..MaxHeight

\* the memory type tables and requirement bitmasks the selections are run on
MemoryTables == UNION {[1..n -> SUBSET Properties] : n \in 1..MaxMemoryTypes}
TypeMasks == 0..((2 ^ MaxMemoryTypes) - 1)

\* the commands LoadedImage::new records into its one-shot command buffer
UploadCommandsCopyFirst ==
  << [op |-> "copy", from |-> <<"TRANSFER_WRITE", "TransferDstOptimal">>,
      to |-> <<"TRANSFER_WRITE", "TransferDstOptimal">>],
     [op |-> "barrier", from |-> <<"empty", "Undefined">>,
      to |-> <<"TRANSFER_WRITE", "TransferDstOptimal">>],
     [op |-> "barrier", from |-> <<"TRANSFER_WRITE", "TransferDstOptimal">>,
      to |-> <<"SHADER_READ", "ShaderReadOnlyOptimal">>] >>
UploadCommands ==
  << [op |-> "barrier", from |-> <<"empty", "Undefined">>,
      to |-> <<"TRANSFER_WRITE", "TransferDstOptimal">>],
     [op |-> "copy", from |-> <<"TRANSFER_WRITE", "TransferDstOptimal">>,
      to |-> <<"TRANSFER_WRITE", "TransferDstOptimal">>],
     [op |-> "barrier", from |-> <<"TRANSFER_WRITE", "TransferDstOptimal">>,
      to |-> <<"SHADER_READ", "ShaderReadOnlyOptimal">>] >>

\* nothing is being built by BufferBundle::new, LoadedImage::new or DepthImage::new
\* nothing read from the surface yet, no field of the SwapchainConfig chosen
NoCaps ==
  [ image_count |-> <<0, <<0, 0>>>>, extents |-> <<<<0, 0>>, <<0, 0>>>>,
    current_extent |-> <<0, 0>>, usage |-> {} ]
NoConfig ==
  [ present_mode |-> "none", composite_alpha |-> "none", format |-> "none",
    extent |-> <<0, 0>>, image_count |-> 0, image_usage |-> "none" ]
SwapIdle ==
  /\ present_modes = {}
  /\ composite_alphas = {}
  /\ preferred_formats = [some |-> FALSE, formats |-> <<>>]
  /\ caps = NoCaps
  /\ window_client_area = <<0, 0>>
  /\ swapchain_config = NoConfig

LoadIdle ==
  /\ memory_types = <<>>
  /\ type_mask = 0
  /\ required = "none"
  /\ memory_type_id = NoType
  /\ alignment = 0
  /\ row_size = <<0, 0>>
  /\ row_pitch = <<0, 0>>
  /\ height = 0
  /\ required_bytes = <<0, 0>>
  /\ staged = <<>>
  /\ buffer_width = <<0, 0>>
  /\ objs = [o \in LoadObjects |-> "none"]
  /\ memProps = [o \in LoadMemories |-> {}]
  /\ cmds = <<>>
  /\ submitted = FALSE
  /\ executed = 0
  /\ upload_fence = FALSE
  /\ layout = <<"empty", "Undefined">>
  /\ copiedIn = {}

\* no HalState has been built yet
MainIdle ==
  /\ after = "poll"
  /\ frames_in_flight = 0
  /\ image_count = 0
  /\ current_frame = 0
  /\ fences = <<>>
  /\ queue = <<>>
  /\ slot = 0
  /\ image_index = 0
  /\ log = <<>>
  /\ used = NoUse
  /\ draws = 0
  /\ failures = 0
  /\ resizes = 0
  /\ okDraws = 0
  /\ beginPending = FALSE
  /\ fenceCycle = <<>>
  /\ idleWaited = FALSE
  /\ busyAtDestroy = FALSE
  /\ destroyLog = <<>>
  /\ releaseLog = <<>>
  /\ live = [k \in Kinds |-> 0]
  /\ extent = 0

Init ==
  /\ example \in Examples
  /\ pc = "new"
  /\ routine = "none"
  /\ LoadIdle
  /\ SwapIdle
  /\ MainIdle

\* ------------------------------------------------------- HalState::new
\* surface.compatibility() is queried by every HalState::new: the largest image
\* count the surface supports, and whether it offers PresentMode::Mailbox
SurfaceMaxImages == 3..MaxSurfaceImages

\* The swapchain delivers at least the requested number of images; the clear
\* examples take the count from SwapchainConfig::from_caps.
DeliveredImageCounts(ex, f) ==
  IF ex \in ClearExamples THEN 2..(f + MaxExtraImages) ELSE f..(f + MaxExtraImages)

\* the fallible creation calls of HalState::new, by the kind each creates, in
\* program order (create_pipeline, BufferBundle::new, LoadedImage::new and
\* DepthImage::new inlined)
CreationOrder(ex) ==
  IF ex \in ClearExamples
    THEN <<"instance", "device", "swapchain", "render_pass", "image_view",
           "framebuffer", "command_pool", "image_available", "render_finished",
           "fence">>
  ELSE IF ex = "triangle"
    THEN <<"instance", "device", "swapchain", "fence", "image_available",
           "render_finished", "render_pass", "image_view", "framebuffer",
           "command_pool">>
  ELSE <<"instance", "device", "swapchain", "fence", "image_available",
         "render_finished", "render_pass", "image_view">>
       \o (IF ex = "depth" THEN <<"depth_image", "depth_memory", "depth_view">>
           ELSE <<>>)
       \o <<"framebuffer", "command_pool", "descriptor_set_layout",
            "descriptor_pool", "pipeline_layout", "graphics_pipeline",
            "vertex_buffer", "vertex_memory", "index_buffer", "index_memory",
            "texture_image", "texture_memory", "texture_view", "sampler">>

\* what is alive when the k-th creation call returns Err after j elements of its
\* Vec: the `?` returns at once, the locals go out of scope, and only the owning
\* types release what they hold
LeftByFailedNew(ex, f, n, k, j) ==
  LET order == CreationOrder(ex)
      made == Created(ex, f, n)
  IN [kind \in Kinds |->
        IF kind \in OwningKinds THEN 0
        ELSE IF \E i \in 1..(k - 1) : order[i] = kind THEN made[kind]
        ELSE IF order[k] = kind /\ kind \in VecKinds THEN Min(j, made[kind] - 1)
        ELSE 0]

\* every outcome of a HalState::new that returns Err: any surface, any delivered
\* image count, any of the creation calls failing, after any number of elements
FailedNewOutcomes ==
  [ex \in Examples |->
     { LeftByFailedNew(ex, FramesInFlight(ex, maxImg, mbox), n, k, j) :
         <<maxImg, mbox, n, k, j>> \in
           { t \in SurfaceMaxImages \X BOOLEAN \X (2..(MaxSurfaceImages + MaxExtraImages))
                     \X (1..Len(CreationOrder(ex))) \X (0..MaxPartial) :
               t[3] \in DeliveredImageCounts(ex, FramesInFlight(ex, t[1], t[2])) } }]

\* window.get_inner_size(): each resize event gives the window a new size
WindowSize == resizes

HalStateNew ==
  /\ pc = "new"
  /\ \/ /\ \E maxImg \in SurfaceMaxImages, mbox \in BOOLEAN :
             frames_in_flight' = FramesInFlight(example, maxImg, mbox)
        /\ \E n \in DeliveredImageCounts(example, frames_in_flight') :
             image_count' = n
        /\ extent' = WindowSize
        /\ current_frame' = 0
        /\ fences' = [i \in 0..(frames_in_flight' - 1) |-> TRUE]
        /\ fenceCycle' = [i \in 0..(frames_in_flight' - 1) |-> "created"]
        /\ queue' = <<>>
        /\ okDraws' = 0
        /\ idleWaited' = FALSE
        /\ destroyLog' = <<>>
        /\ releaseLog' = <<>>
        /\ busyAtDestroy' = FALSE
        /\ live' = Created(example, frames_in_flight', image_count')
        /\ log' = <<>>
        /\ pc' = IF after = "draw" THEN "draw" ELSE "poll"
        /\ UNCHANGED <<failures, slot, image_index, used>>
     \/ /\ CanFail
        /\ failures' = failures + 1
        /\ pc' = "aborted"
        /\ live' \in FailedNewOutcomes[example]
        \* no HalState value exists after the Err
        /\ frames_in_flight' = 0
        /\ image_count' = 0
        /\ extent' = 0
        /\ current_frame' = 0
        /\ fences' = <<>>
        /\ fenceCycle' = <<>>
        /\ queue' = <<>>
        /\ okDraws' = 0
        /\ idleWaited' = FALSE
        /\ destroyLog' = <<>>
        /\ releaseLog' = <<>>
        /\ busyAtDestroy' = FALSE
        /\ slot' = 0
        /\ image_index' = 0
        /\ log' = <<>>
        /\ used' = NoUse
  /\ UNCHANGED <<env, after, draws, resizes, beginPending>>

\* ------------------------------------------------------------ main loop
\* one pass of poll_events and the branch main takes on the polled input; one
\* pass can deliver a close request and a resize together
PollEvents == {"none", "close", "resize", "close_resize"}
Closes(ev) == ev \in {"close", "close_resize"}
Resizes(ev) == ev \in {"resize", "close_resize"}

PollNoRebuild ==
  /\ pc = "poll"
  /\ \E ev \in PollEvents :
       /\ Resizes(ev) => resizes < MaxResizes
       /\ ~Closes(ev) => draws < MaxDraws
       /\ resizes' = IF Resizes(ev) THEN resizes + 1 ELSE resizes
       /\ IF Closes(ev)
            THEN /\ pc' = IF example \in ClearExamples THEN "wait_until_idle" ELSE "drop_wait"
                 /\ after' = "exit"
          ELSE /\ pc' = "draw"
               /\ after' = after
  /\ UNCHANGED <<env, hal, call, teardown, draws, failures, beginPending>>
Poll ==
  /\ pc = "poll"
  /\ \E ev \in PollEvents :
       /\ Resizes(ev) => resizes < MaxResizes
       /\ ~Closes(ev) => draws < MaxDraws
       /\ resizes' = IF Resizes(ev) THEN resizes + 1 ELSE resizes
       /\ IF Closes(ev)
            THEN /\ pc' = IF example \in ClearExamples THEN "wait_until_idle" ELSE "drop_wait"
                 /\ after' = "exit"
          ELSE IF Resizes(ev) /\ example \in {"textures", "depth"}
            THEN /\ pc' = "drop_wait"
                 /\ after' = "draw"
          ELSE /\ pc' = "draw"
               /\ after' = after
  /\ UNCHANGED <<env, hal, call, teardown, draws, failures, beginPending>>

\* ------------------------------------------------------------ draw call
DrawEnter ==
  /\ pc = "draw"
  /\ draws < MaxDraws
  /\ draws' = draws + 1
  /\ slot' = current_frame
  /\ current_frame' = IF AdvancesFirst(example)
                        THEN NextFrame(current_frame, frames_in_flight)
                        ELSE current_frame
  /\ log' = <<>>
  /\ used' = NoUse
  /\ pc' = FirstStep
  /\ UNCHANGED <<env, after, built, fences, queue, okDraws,
                 fenceCycle, idleWaited, image_index, teardown, failures, resizes,
                 beginPending>>

\* wait_for_fence(fence, u64::MAX): returns Ok once the fence is signaled
DrawWaitForFenceNoBlock ==
  /\ pc = "wait"
  /\ log' = Append(log, "wait")
  /\ fenceCycle' = [fenceCycle EXCEPT ![FenceIdx] = "waited"]
  /\ pc' = StepAfter("wait")
  /\ UNCHANGED failures
  /\ UNCHANGED <<env, after, built, current_frame, fences,
                 queue, okDraws, idleWaited, slot, image_index, used, teardown,
                 draws, resizes, beginPending>>
DrawWaitForFence ==
  /\ pc = "wait"
  /\ log' = Append(log, "wait")
  /\ fenceCycle' = [fenceCycle EXCEPT ![FenceIdx] = "waited"]
  /\ \/ /\ fences[FenceIdx]
        /\ pc' = StepAfter("wait")
        /\ UNCHANGED failures
     \/ /\ CanFail
        /\ failures' = failures + 1
        /\ pc' = "ret_err"
  /\ UNCHANGED <<env, after, built, current_frame, fences,
                 queue, okDraws, idleWaited, slot, image_index, used, teardown,
                 draws, resizes, beginPending>>

DrawResetFenceSkipped ==
  /\ pc = "reset"
  /\ log' = Append(log, "reset")
  /\ \/ /\ pc' = StepAfter("reset")
        /\ UNCHANGED failures
     \/ /\ CanFail
        /\ failures' = failures + 1
        /\ pc' = "ret_err"
  /\ UNCHANGED <<fences, fenceCycle>>
  /\ UNCHANGED <<env, after, built, current_frame, queue,
                 okDraws, idleWaited, slot, image_index, used, teardown, draws,
                 resizes, beginPending>>
DrawResetFence ==
  /\ pc = "reset"
  /\ log' = Append(log, "reset")
  /\ \/ /\ fences' = [fences EXCEPT ![FenceIdx] = FALSE]
        /\ fenceCycle' = [fenceCycle EXCEPT ![FenceIdx] = "reset"]
        /\ pc' = StepAfter("reset")
        /\ UNCHANGED failures
     \/ /\ CanFail
        /\ failures' = failures + 1
        /\ pc' = "ret_err"
        /\ UNCHANGED <<fences, fenceCycle>>
  /\ UNCHANGED <<env, after, built, current_frame, queue,
                 okDraws, idleWaited, slot, image_index, used, teardown, draws,
                 resizes, beginPending>>

\* acquire_image hands out any image index of the swapchain; where the fence is
\* in_flight_fences[image index] an index past the vector panics
DrawAcquireImage ==
  /\ pc = "acquire"
  /\ log' = Append(log, "acquire")
  /\ used' = [used EXCEPT !["acquire_semaphore"] = ImageAvailableIndex(slot, image_index)]
  /\ \/ /\ \E i \in 0..(image_count - 1) :
             /\ image_index' = i
             /\ pc' = IF ~FenceBySlot(example) /\ i >= frames_in_flight
                        THEN "panic" ELSE StepAfter("acquire")
        /\ UNCHANGED failures
     \/ /\ CanFail
        /\ failures' = failures + 1
        /\ pc' = "ret_err"
        /\ UNCHANGED image_index
  /\ UNCHANGED <<env, after, hal, slot, teardown, draws, resizes, beginPending>>

\* acquire_mapping_writer / release_mapping_writer of draw_quad_frame
DrawWriteVertices ==
  /\ pc = "map"
  /\ log' = Append(log, "map")
  /\ \/ /\ pc' = StepAfter("map")
        /\ UNCHANGED failures
     \/ /\ CanFail
        /\ failures' = failures + 1
        /\ pc' = "ret_err"
  /\ UNCHANGED <<env, after, hal, slot, image_index, used, teardown, draws,
                 resizes, beginPending>>

\* buffer.begin .. buffer.finish on command_buffers[image index]
DrawRecord ==
  /\ pc = "record"
  /\ log' = Append(log, "record")
  /\ used' = [used EXCEPT
       !["record_buffer"] = CommandBufferIndex(slot, image_index),
       !["framebuffer"] = CommandBufferIndex(slot, image_index)]
  /\ beginPending' = (beginPending \/
                      \E k \in DOMAIN queue : queue[k].cb = used'["record_buffer"])
  /\ pc' = StepAfter("record")
  /\ UNCHANGED <<env, after, hal, slot, image_index, teardown, counters>>

\* queue.submit(submission, Some(fence))
DrawSubmit ==
  /\ pc = "submit"
  /\ log' = Append(log, "submit")
  /\ used' = [used EXCEPT
       !["submit_buffer"] = CommandBufferIndex(slot, image_index),
       !["submit_wait"] = ImageAvailableIndex(slot, image_index),
       !["submit_signal"] = RenderFinishedIndex(slot, image_index)]
  /\ queue' = Append(queue, [cb |-> used'["submit_buffer"], fence |-> FenceIdx,
                             slot |-> slot])
  /\ fenceCycle' = [fenceCycle EXCEPT ![FenceIdx] = "submitted"]
  /\ pc' = StepAfter("submit")
  /\ UNCHANGED <<env, after, built, current_frame, fences,
                 okDraws, idleWaited, slot, image_index, teardown, counters,
                 beginPending>>

\* swapchain.present; the clear examples advance current_frame after it succeeded
DrawPresent ==
  /\ pc = "present"
  /\ log' = Append(log, "present")
  /\ used' = [used EXCEPT
       !["present_image"] = image_index,
       !["present_wait"] = RenderFinishedIndex(slot, image_index)]
  /\ \/ /\ pc' = StepAfter("present")
        /\ okDraws' = okDraws + 1
        /\ current_frame' = IF AdvancesFirst(example)
                              THEN current_frame
                              ELSE NextFrame(current_frame, frames_in_flight)
        /\ UNCHANGED failures
     \/ /\ CanFail
        /\ failures' = failures + 1
        /\ pc' = "ret_err"
        /\ UNCHANGED <<okDraws, current_frame>>
  /\ UNCHANGED <<env, after, built, fences, queue, fenceCycle,
                 idleWaited, slot, image_index, teardown, draws, resizes, beginPending>>

\* the locals of the draw call are gone once it has returned
CallReturned ==
  /\ slot' = 0
  /\ image_index' = 0
  /\ log' = <<>>
  /\ used' = NoUse

\* main after the draw call returned Ok: next loop iteration
MainOnDrawOk ==
  /\ pc = "ret_ok"
  /\ CallReturned
  /\ pc' = "poll"
  /\ UNCHANGED <<env, after, hal, teardown, counters, beginPending>>

\* main after the draw call returned Err: break (clear, triangle) or rebuild
MainOnDrawErrBreaks ==
  /\ pc = "ret_err"
  /\ IF example \in ClearExamples
       THEN pc' = "wait_until_idle" /\ after' = "exit"
     ELSE pc' = "drop_wait" /\ after' = "exit"
  /\ CallReturned
  /\ UNCHANGED <<env, hal, teardown, counters, beginPending>>
MainOnDrawErr ==
  /\ pc = "ret_err"
  /\ IF example \in ClearExamples
       THEN pc' = "wait_until_idle" /\ after' = "exit"
     ELSE IF example = "triangle"
       THEN pc' = "drop_wait" /\ after' = "exit"
     ELSE pc' = "drop_wait" /\ after' = "poll"
  /\ CallReturned
  /\ UNCHANGED <<env, hal, teardown, counters, beginPending>>

\* a caller that calls the draw operation again on the same HalState after Err
RedrawAfterErr ==
  /\ pc = "ret_err"
  /\ draws < MaxDraws
  /\ pc' = "draw"
  /\ CallReturned
  /\ UNCHANGED <<env, after, hal, teardown, counters, beginPending>>

\* unwinding after the index panic drops the HalState and ends the process
PanicUnwind ==
  /\ pc = "panic"
  /\ pc' = "drop_wait"
  /\ after' = "exit"
  /\ CallReturned
  /\ UNCHANGED <<env, hal, teardown, counters, beginPending>>

\* ------------------------------------------------------------------ GPU
\* the oldest submission completes and signals its fence
GPUComplete ==
  /\ DeviceAlive
  /\ queue # <<>>
  /\ fences' = [fences EXCEPT ![Head(queue).fence] = TRUE]
  /\ queue' = Tail(queue)
  /\ UNCHANGED <<env, pc, after, built, current_frame,
                 okDraws, fenceCycle, idleWaited, call, teardown, counters,
                 beginPending>>

\* ------------------------------------------------------------- teardown
\* device.wait_idle(): Ok once the queue has drained; Err(DeviceLost) leaves a
\* device that executes nothing any more.  Every caller discards the result.
WaitIdleReturns ==
  /\ idleWaited' = TRUE
  /\ \/ /\ queue = <<>>
        /\ UNCHANGED <<queue, failures>>
     \/ /\ CanFail
        /\ failures' = failures + 1
        /\ queue' = <<>>

\* main of the clear examples: hal_state.wait_until_idle() after the loop
MainWaitUntilIdle ==
  /\ pc = "wait_until_idle"
  /\ WaitIdleReturns
  /\ pc' = "drop_destroy"
  /\ UNCHANGED <<env, after, built, current_frame, fences,
                 okDraws, fenceCycle, call, teardown, draws, resizes, beginPending>>

\* first statement of Drop::drop in triangle, textures and depth
DropWaitIdleSkipped ==
  /\ pc = "drop_wait"
  /\ pc' = "drop_destroy"
  /\ UNCHANGED <<env, after, hal, call, teardown, counters, beginPending>>
DropWaitIdle ==
  /\ pc = "drop_wait"
  /\ WaitIdleReturns
  /\ pc' = "drop_destroy"
  /\ UNCHANGED <<env, after, built, current_frame, fences,
                 okDraws, fenceCycle, call, teardown, draws, resizes, beginPending>>

\* BufferBundle / LoadedImage / DepthImage :: manually_drop
DropBuffer(name) == <<name \o "_buffer", name \o "_memory">>
DropLoadedImage == <<"sampler", "texture_view", "texture_image", "texture_memory">>
DropDepthImage == <<"depth_view", "depth_image", "depth_memory">>

DropTailKeepsDevice == <<"render_pass", "swapchain">>
DropTail == <<"render_pass", "swapchain", "device", "instance">>
DropSync == <<"fence", "render_finished", "image_available">>
DropPipeline == <<"descriptor_pool", "pipeline_layout", "graphics_pipeline">>

\* the destroy calls of the body of Drop::drop, in program order
DropOrderPoolEarly(ex) ==
  IF ex = "clear_bin" THEN <<>>
  ELSE IF ex = "clear_example"
    THEN DropSync \o <<"command_pool", "framebuffer", "image_view">> \o DropTail
  ELSE IF ex = "triangle"
    THEN DropSync \o <<"command_pool", "framebuffer", "image_view">> \o DropTail
  ELSE IF ex = "textures"
    THEN <<"descriptor_set_layout">> \o DropSync \o <<"command_pool", "framebuffer", "image_view">>
         \o DropBuffer("vertex") \o DropBuffer("index") \o DropLoadedImage
         \o DropPipeline \o DropTail
  ELSE DropDepthImage \o <<"descriptor_set_layout">> \o DropSync
       \o <<"command_pool", "framebuffer", "image_view">>
       \o DropBuffer("vertex") \o DropBuffer("index") \o DropLoadedImage
       \o DropPipeline \o DropTail
DropOrder(ex) ==
  IF ex = "clear_bin" THEN <<>>
  ELSE IF ex = "clear_example"
    THEN DropSync \o <<"command_pool", "framebuffer", "image_view">> \o DropTail
  ELSE IF ex = "triangle"
    THEN DropSync \o <<"framebuffer", "image_view", "command_pool">> \o DropTail
  ELSE IF ex = "textures"
    THEN <<"descriptor_set_layout">> \o DropSync \o <<"framebuffer", "image_view">>
         \o DropBuffer("vertex") \o DropBuffer("index") \o DropLoadedImage
         \o DropPipeline \o <<"command_pool">> \o DropTail
  ELSE DropDepthImage \o <<"descriptor_set_layout">> \o DropSync
       \o <<"framebuffer", "image_view">>
       \o DropBuffer("vertex") \o DropBuffer("index") \o DropLoadedImage
       \o DropPipeline \o <<"command_pool">> \o DropTail

\* the fields Rust drops after the body of Drop::drop, in declaration order
\* (every field of clear_bin, whose Drop impl is commented out)
FieldDrops(ex) ==
  IF ex = "clear_bin"
    THEN <<"instance", "surface", "adapter", "device", "swapchain", "queue_group",
           "render_pass", "image_view", "framebuffer", "command_pool",
           "command_buffer", "image_available", "render_finished", "fence">>
  ELSE IF ex \in {"clear_example", "triangle"}
    THEN <<"command_buffer", "queue_group", "adapter", "surface">>
  ELSE <<"command_buffer", "queue_group", "adapter", "surface">>

\* the body of Drop::drop after the idle wait, then the implicit field drops
DropDestroy ==
  /\ pc = "drop_destroy"
  /\ busyAtDestroy' = (queue # <<>>)
  /\ destroyLog' = DropOrder(example)
  /\ releaseLog' = DropOrder(example) \o FieldDrops(example)
  /\ live' = DestroyAll(DestroyAll(live, DropOrder(example), FALSE),
                        FieldDrops(example), TRUE)
  /\ pc' = "dropped"
  /\ UNCHANGED <<env, after, hal, call, counters, beginPending>>

\* drop(hal_state) is followed by HalState::new, the end of main by nothing
MainAfterDropLoopsOn ==
  /\ pc = "dropped"
  /\ pc' = "new"
  /\ UNCHANGED <<env, after, hal, call, teardown, counters, beginPending>>
MainAfterDrop ==
  /\ pc = "dropped"
  /\ pc' = IF after = "exit" THEN "done" ELSE "new"
  /\ UNCHANGED <<env, after, hal, call, teardown, counters, beginPending>>

\* <<X, Y>>: X is created from, attaches or references Y (HalState::new,
\* create_pipeline, DepthImage::new, LoadedImage::new, BufferBundle::new)
DependsOn ==
  { <<"framebuffer", "render_pass">>, <<"framebuffer", "image_view">>,
    <<"framebuffer", "depth_view">>, <<"image_view", "swapchain">>,
    <<"depth_view", "depth_image">>, <<"depth_image", "depth_memory">>,
    <<"texture_view", "texture_image">>, <<"texture_image", "texture_memory">>,
    <<"vertex_buffer", "vertex_memory">>, <<"index_buffer", "index_memory">>,
    <<"pipeline_layout", "descriptor_set_layout">>,
    <<"descriptor_pool", "descriptor_set_layout">>,
    <<"graphics_pipeline", "pipeline_layout">>,
    <<"graphics_pipeline", "render_pass">> }



\* ------------------------------ runs of the constructors, step by step
\* everything of the frame loop, which a constructor run does not touch
frame == <<example, after, hal, call, teardown, draws, resizes, beginPending, swap>>

InitLoad ==
  /\ example \in {"textures", "depth"}
  /\ routine \in Routines
  /\ routine = "DepthImage" => example = "depth"
  /\ pc = IF routine = "LoadedImage" THEN "li_pitch"
          ELSE IF routine = "DepthImage" THEN "img_create"
          ELSE IF routine = "create_pipeline" THEN "cp_compile" ELSE "bb_create"
  /\ LoadIdle
  /\ SwapIdle
  /\ MainIdle

\* a fallible gfx-hal call of a constructor returns Err: `?` returns at once
LoadCallFails ==
  /\ CanFail
  /\ failures' = failures + 1
  /\ pc' = "done_err"

\* LoadedImage::new step 0: the row pitch.  Where the addition overflows, a build
\* with overflow checks panics and one without wraps around.
LoadRowPitch ==
  /\ pc = "li_pitch"
  /\ \E a \in Alignments, w \in Widths, h \in Heights :
       /\ alignment' = a
       /\ row_size' = RowSize(w)
       /\ height' = h
       /\ \/ /\ row_pitch' = RowPitch(a, RowSize(w))
             /\ pc' = "bb_create"
          \/ /\ AddOverflows(RowSize(w), U32(a - 1))
             /\ row_pitch' = row_pitch
             /\ pc' = "panic"
  /\ UNCHANGED <<frame, failures, routine, selection, objs, memProps, upload,
                 required_bytes, staged, buffer_width>>

\* BufferBundle::new: device.create_buffer of the size it is given, which for the
\* staging buffer is required_bytes; the alignment is not used by the steps
\* that follow
BufferBundleCreate ==
  /\ pc = "bb_create"
  /\ alignment' = 0
  /\ required_bytes' = RequiredBytes(row_pitch, height)
  /\ UNCHANGED <<row_size, row_pitch, height, staged, buffer_width>>
  /\ \/ /\ objs' = [objs EXCEPT !["buffer"] = "alive"]
        /\ pc' = "bb_select"
        /\ UNCHANGED failures
     \/ /\ LoadCallFails
        /\ UNCHANGED objs
  /\ UNCHANGED <<frame, routine, selection, memProps, upload>>

\* the memory type selection of a constructor for `what` ("buffer" or "image")
SelectMemory(what, next) ==
  \E types \in MemoryTables, mask \in TypeMasks :
    /\ memory_types' = types
    /\ type_mask' = mask
    /\ required' = RequiredProperty(what)
    /\ memory_type_id' = FindMemoryType(types, mask, RequiredProperty(what), 0)
    /\ pc' = IF memory_type_id' = NoType THEN "done_err" ELSE next

\* device.allocate_memory(memory_type_id, requirements.size)
AllocateMemory(mem, next) ==
  /\ memory_types' = <<>>
  /\ type_mask' = 0
  /\ required' = "none"
  /\ memory_type_id' = NoType
  /\ \/ /\ objs' = [objs EXCEPT ![mem] = "alive"]
        /\ memProps' = [memProps EXCEPT ![mem] = memory_types[memory_type_id + 1]]
        /\ pc' = next
        /\ UNCHANGED failures
     \/ /\ LoadCallFails
        /\ UNCHANGED <<objs, memProps>>

\* a fallible call that creates nothing (bind, mapping writer)
PlainCall(next) ==
  \/ /\ pc' = next
     /\ UNCHANGED failures
  \/ LoadCallFails

\* a fallible call that creates object o
CreateCall(o, next) ==
  \/ /\ objs' = [objs EXCEPT ![o] = "alive"]
     /\ pc' = next
     /\ UNCHANGED failures
  \/ /\ LoadCallFails
     /\ UNCHANGED objs

BufferBundleSelect ==
  /\ pc = "bb_select"
  /\ SelectMemory("buffer", "bb_allocate")
  /\ UNCHANGED <<frame, failures, routine, pitch, staging, objs, memProps, upload>>

BufferBundleAllocate ==
  /\ pc = "bb_allocate"
  /\ AllocateMemory("buffer_memory", "bb_bind")
  /\ UNCHANGED <<frame, routine, pitch, staging, upload>>

BufferBundleBind ==
  /\ pc = "bb_bind"
  /\ PlainCall(IF routine = "LoadedImage" THEN "li_map" ELSE "done_ok")
  /\ UNCHANGED <<frame, routine, selection, pitch, staging, objs, memProps, upload>>

\* LoadedImage::new step 2: the image rows are written through a mapping writer
\* over 0..requirements.size, which is at least the size asked for.  A row that
\* ends past required_bytes is written where the device made the buffer larger
\* and panics on the slice index where it did not.
LoadWriteStaging ==
  /\ pc = "li_map"
  /\ \/ /\ staged' = StagedRows(height, row_size, row_pitch)
        /\ pc' = "img_create"
        /\ UNCHANGED failures
     \/ /\ LoadCallFails
        /\ staged' \in {staged, StagedRows(height, row_size, row_pitch)}
     \/ /\ \E y \in 1..height :
             ~LeqUsize(StagedRows(height, row_size, row_pitch)[y][2], required_bytes)
        /\ pc' = "panic"
        /\ UNCHANGED <<failures, staged>>
  /\ UNCHANGED <<frame, routine, selection, pitch, height, required_bytes,
                 buffer_width, objs, memProps, upload>>

\* LoadedImage::new steps 3-5 and DepthImage::new
ImageCreate ==
  /\ pc = "img_create"
  /\ CreateCall("image", "img_select")
  /\ UNCHANGED <<frame, routine, selection, pitch, staging, memProps, upload>>

ImageSelect ==
  /\ pc = "img_select"
  /\ SelectMemory("image", "img_allocate")
  /\ UNCHANGED <<frame, failures, routine, pitch, staging, objs, memProps, upload>>

ImageAllocate ==
  /\ pc = "img_allocate"
  /\ AllocateMemory("image_memory", "img_bind")
  /\ UNCHANGED <<frame, routine, pitch, staging, upload>>

ImageBind ==
  /\ pc = "img_bind"
  /\ PlainCall("img_view")
  /\ UNCHANGED <<frame, routine, selection, pitch, staging, objs, memProps, upload>>

ImageCreateView ==
  /\ pc = "img_view"
  /\ CreateCall("image_view", IF routine = "DepthImage" THEN "done_ok" ELSE "li_sampler")
  /\ UNCHANGED <<frame, routine, selection, pitch, staging, memProps, upload>>

LoadCreateSampler ==
  /\ pc = "li_sampler"
  /\ CreateCall("sampler", "li_begin")
  /\ UNCHANGED <<frame, routine, selection, pitch, staging, memProps, upload>>

\* LoadedImage::new step 6: acquire_command_buffer::<OneShot>() and begin()
LoadBeginCommands ==
  /\ pc = "li_begin"
  /\ objs' = [objs EXCEPT !["cmd_buffer"] = "alive"]
  /\ cmds' = <<>>
  /\ pc' = "li_record"
  /\ UNCHANGED <<frame, failures, routine, selection, pitch, staging, memProps, submitted,
                 executed, upload_fence, layout, copiedIn>>

\* steps 7-9: the next of the recorded commands; finish() follows the last
LoadRecord ==
  /\ pc = "li_record"
  /\ cmds' = Append(cmds, UploadCommands[Len(cmds) + 1])
  /\ buffer_width' = IF UploadCommands[Len(cmds) + 1].op = "copy"
                       THEN BufferWidth(row_pitch) ELSE buffer_width
  /\ pc' = IF Len(cmds') = Len(UploadCommands) THEN "li_fence" ELSE "li_record"
  /\ UNCHANGED <<frame, failures, routine, selection, pitch, height,
                 required_bytes, staged, objs, memProps,
                 submitted, executed, upload_fence, layout, copiedIn>>

\* step 10: create_fence(false)
LoadCreateFence ==
  /\ pc = "li_fence"
  /\ CreateCall("upload_fence", "li_submit")
  /\ upload_fence' = FALSE
  /\ UNCHANGED <<frame, routine, selection, pitch, staging, memProps, cmds, submitted,
                 executed, layout, copiedIn>>

\* submit_nosemaphores(Some(&cmd_buffer), Some(&upload_fence))
LoadSubmit ==
  /\ pc = "li_submit"
  /\ submitted' = TRUE
  /\ pc' = "li_wait"
  /\ UNCHANGED <<frame, failures, routine, selection, pitch, staging, objs, memProps, cmds,
                 executed, upload_fence, layout, copiedIn>>

\* wait_for_fence(&upload_fence, u64::MAX): Ok once the fence is signaled
LoadWaitForFenceNoBlock ==
  /\ pc = "li_wait"
  /\ pc' = "li_destroy_fence"
  /\ UNCHANGED <<frame, failures, load>>
LoadWaitForFence ==
  /\ pc = "li_wait"
  /\ \/ /\ upload_fence
        /\ pc' = "li_destroy_fence"
        /\ UNCHANGED failures
     \/ LoadCallFails
  /\ UNCHANGED <<frame, load>>

LoadDestroyFence ==
  /\ pc = "li_destroy_fence"
  /\ objs' = [objs EXCEPT !["upload_fence"] = "destroyed"]
  /\ pc' = "li_drop_staging"
  /\ UNCHANGED <<frame, failures, routine, selection, pitch, staging, memProps, upload>>

\* step 11: staging_bundle.manually_drop(device)
LoadDropStaging ==
  /\ pc = "li_drop_staging"
  /\ objs' = [objs EXCEPT !["buffer"] = "destroyed", !["buffer_memory"] = "destroyed"]
  /\ pc' = "li_free"
  /\ UNCHANGED <<frame, failures, routine, selection, pitch, staging, memProps, upload>>

\* command_pool.free(Some(cmd_buffer)), then Ok(Self { .. })
LoadFreeCommandBuffer ==
  /\ pc = "li_free"
  /\ objs' = [objs EXCEPT !["cmd_buffer"] = "destroyed"]
  /\ pc' = "done_ok"
  /\ UNCHANGED <<frame, failures, routine, selection, pitch, staging, memProps, upload>>

\* create_pipeline of textures.rs and depth_buffer.rs (the one of
\* triangle_intro.rs is never called): shaderc::Compiler::new and the two
\* compile_into_spirv
PipelineCompileShaders ==
  /\ pc = "cp_compile"
  /\ PlainCall("cp_vertex")
  /\ UNCHANGED <<frame, routine, selection, pitch, staging, objs, memProps, upload>>

PipelineCreateVertexModule ==
  /\ pc = "cp_vertex"
  /\ CreateCall("vertex_shader_module", "cp_fragment")
  /\ UNCHANGED <<frame, routine, selection, pitch, staging, memProps, upload>>

PipelineCreateFragmentModule ==
  /\ pc = "cp_fragment"
  /\ CreateCall("fragment_shader_module", "cp_set_layout")
  /\ UNCHANGED <<frame, routine, selection, pitch, staging, memProps, upload>>

PipelineCreateSetLayout ==
  /\ pc = "cp_set_layout"
  /\ CreateCall("descriptor_set_layout", "cp_pool")
  /\ UNCHANGED <<frame, routine, selection, pitch, staging, memProps, upload>>

PipelineCreatePool ==
  /\ pc = "cp_pool"
  /\ CreateCall("descriptor_pool", "cp_set")
  /\ UNCHANGED <<frame, routine, selection, pitch, staging, memProps, upload>>

PipelineAllocateSet ==
  /\ pc = "cp_set"
  /\ CreateCall("descriptor_set", "cp_layout")
  /\ UNCHANGED <<frame, routine, selection, pitch, staging, memProps, upload>>

PipelineCreateLayout ==
  /\ pc = "cp_layout"
  /\ CreateCall("pipeline_layout", "cp_pipeline")
  /\ UNCHANGED <<frame, routine, selection, pitch, staging, memProps, upload>>

PipelineCreatePipeline ==
  /\ pc = "cp_pipeline"
  /\ CreateCall("graphics_pipeline", "cp_destroy")
  /\ UNCHANGED <<frame, routine, selection, pitch, staging, memProps, upload>>

\* destroy_shader_module of both modules, then Ok((..))
PipelineDestroyModules ==
  /\ pc = "cp_destroy"
  /\ objs' = [objs EXCEPT !["vertex_shader_module"] = "destroyed",
                          !["fragment_shader_module"] = "destroyed"]
  /\ pc' = "done_ok"
  /\ UNCHANGED <<frame, failures, routine, selection, pitch, staging, memProps, upload>>

\* the queue executes the next command of the submitted buffer; the fence of
\* the submission is signaled with the last one
GPUExecute ==
  /\ submitted
  /\ executed < Len(cmds)
  /\ LET c == cmds[executed + 1] IN
       /\ layout' = IF c.op = "barrier" THEN c.to ELSE layout
       /\ copiedIn' = IF c.op = "copy" THEN copiedIn \cup {layout[2]} ELSE copiedIn
  /\ executed' = executed + 1
  /\ upload_fence' = (executed' = Len(cmds))
  /\ UNCHANGED <<frame, pc, failures, routine, selection, pitch, staging, objs, memProps,
                 cmds, submitted>>

\* ------------------------------------------------------- specifications
Next ==
  \/ HalStateNew
  \/ Poll
  \/ DrawEnter
  \/ DrawWaitForFence
  \/ DrawResetFence
  \/ DrawAcquireImage
  \/ DrawWriteVertices
  \/ DrawRecord
  \/ DrawSubmit
  \/ DrawPresent
  \/ MainOnDrawOk
  \/ MainOnDrawErr
  \/ PanicUnwind
  \/ GPUComplete
  \/ MainWaitUntilIdle
  \/ DropWaitIdle
  \/ DropDestroy
  \/ MainAfterDrop

\* the programs as written
Spec == Init /\ [][Next]_vars

\* the draw operation called again on the same HalState after it returned Err
NextRetry == Next \/ RedrawAfterErr
SpecRetry == Init /\ [][NextRetry]_vars

\* one run of BufferBundle::new, LoadedImage::new, DepthImage::new or
\* create_pipeline
NextLoad ==
  \/ LoadRowPitch
  \/ BufferBundleCreate
  \/ BufferBundleSelect
  \/ BufferBundleAllocate
  \/ BufferBundleBind
  \/ LoadWriteStaging
  \/ ImageCreate
  \/ ImageSelect
  \/ ImageAllocate
  \/ ImageBind
  \/ ImageCreateView
  \/ LoadCreateSampler
  \/ LoadBeginCommands
  \/ LoadRecord
  \/ LoadCreateFence
  \/ LoadSubmit
  \/ LoadWaitForFence
  \/ LoadDestroyFence
  \/ LoadDropStaging
  \/ LoadFreeCommandBuffer
  \/ GPUExecute
  \/ PipelineCompileShaders
  \/ PipelineCreateVertexModule
  \/ PipelineCreateFragmentModule
  \/ PipelineCreateSetLayout
  \/ PipelineCreatePool
  \/ PipelineAllocateSet
  \/ PipelineCreateLayout
  \/ PipelineCreatePipeline
  \/ PipelineDestroyModules
SpecLoad == InitLoad /\ [][NextLoad]_vars

\* ---------------------------------- HalState::new: the swapchain block
\* everything the swapchain block does not touch
outside == <<example, after, hal, call, teardown, counters, beginPending, load>>

\* the examples whose HalState::new returns a Result; HalState::new of the
\* clear examples returns Self and panics where it cannot go on
ResultExamples == {"triangle", "textures", "depth"}
SwapFails(ex) == IF ex \in ResultExamples THEN "sc_err" ELSE "sc_panic"

\* gfx_hal::window::PresentMode and CompositeAlpha, and the order in which the
\* code tries their values
PresentModes == {"Mailbox", "Fifo", "Relaxed", "Immediate"}
CompositeAlphas == {"Opaque", "Inherit", "PreMultiplied", "PostMultiplied"}
PresentModeFifoFirst == <<"Fifo", "Mailbox", "Relaxed", "Immediate">>
PresentModePreference == <<"Mailbox", "Fifo", "Relaxed", "Immediate">>
CompositeAlphaInheritFirst == <<"Inherit", "Opaque", "PreMultiplied", "PostMultiplied">>
CompositeAlphaPreference == <<"Opaque", "Inherit", "PreMultiplied", "PostMultiplied">>

\* order.iter().cloned().find(|x| supported.contains(x)); "none" for None
Find(order, supported) ==
  IF \E i \in DOMAIN order : order[i] \in supported
    THEN order[CHOOSE i \in DOMAIN order :
                 /\ order[i] \in supported
                 /\ \A j \in 1..(i - 1) : order[j] \notin supported]
  ELSE "none"

\* preferred_formats: None, or Some(list)
IsSrgb(f) == f \in {"Rgba8Srgb", "Bgra8Srgb"}
FormatLists ==
  { [some |-> FALSE, formats |-> <<>>],
    [some |-> TRUE, formats |-> <<>>],
    [some |-> TRUE, formats |-> <<"Bgra8Unorm">>],
    [some |-> TRUE, formats |-> <<"Bgra8Unorm", "Bgra8Srgb">>] }
SelectedFormat(pf) ==
  IF ~pf.some THEN "Rgba8Srgb"
  ELSE IF \E i \in DOMAIN pf.formats : IsSrgb(pf.formats[i])
    THEN pf.formats[CHOOSE i \in DOMAIN pf.formats :
                      /\ IsSrgb(pf.formats[i])
                      /\ \A j \in 1..(i - 1) : ~IsSrgb(pf.formats[j])]
  ELSE IF pf.formats # <<>> THEN pf.formats[1]
  ELSE "none"

\* caps.extents as <<start, end>> of <<width, height>>, and the window sizes
ExtentRanges ==
  { <<lo, hi>> \in ((1..MaxExtent) \X (1..MaxExtent)) \X ((1..MaxExtent) \X (1..MaxExtent)) :
      lo[1] <= hi[1] /\ lo[2] <= hi[2] }
WindowAreas == (0..(MaxExtent + 1)) \X (0..(MaxExtent + 1))

\* the extent of triangle_intro.rs is caps.extents.end; textures.rs and
\* depth_buffer.rs take the smaller of caps.extents.end and the window size
ChosenExtent(ex, ext, win) ==
  IF ex = "triangle" THEN ext[2]
  ELSE <<Min(ext[2][1], win[1]), Min(ext[2][2], win[2])>>

\* caps.image_count.end, a u32: small values, and the largest one
ImageCountEnds == {U32(n) : n \in 0..MaxSurfaceImages} \cup {<<Half - 1, Half - 1>>}
SubOverflows(a, b) == a[1] < b[1] \/ (a[1] = b[1] /\ a[2] < b[2])
\* caps.image_count.start for a given end: the smallest count the surface
\* supports, at most the largest
ImageCountStarts(end) ==
  {n \in 0..MaxSurfaceImages : (n = 0) = (end = <<0, 0>>) /\ ~SubOverflows(end, U32(n))}
WrappingSub(a, b) ==
  LET borrow == IF a[2] < b[2] THEN 1 ELSE 0
  IN <<(a[1] - b[1] - borrow + Half) % Half, (a[2] - b[2] + Half) % Half>>
MinU32(a, b) == IF SubOverflows(b, a) THEN b ELSE a

\* image_count = (caps.image_count.end - 1).min(3) for Mailbox, .min(2) otherwise
ImageCountNoOffset(end, mode) ==
  MinU32(end, U32(IF mode = "Mailbox" THEN 3 ELSE 2))
ImageCount(end, mode) ==
  MinU32(WrappingSub(end, U32(1)), U32(IF mode = "Mailbox" THEN 3 ELSE 2))

\* caps.usage
UsageSets == SUBSET {"COLOR_ATTACHMENT", "TRANSFER_DST"}

\* caps.image_count as the range <<start, end>> read by the clear examples
ImageCountRanges ==
  { <<a, b>> \in (1..2) \X (1..MaxSurfaceImages) : a <= b }

\* what surface.compatibility() returned, as far as the current step reads it
Reads(pm, ca, pf, cp, win) ==
  /\ present_modes' = pm
  /\ composite_alphas' = ca
  /\ preferred_formats' = pf
  /\ caps' = cp
  /\ window_client_area' = win
NoFormats == [some |-> FALSE, formats |-> <<>>]

InitSwap ==
  /\ example \in Examples
  /\ pc = IF example \in ResultExamples THEN "sc_mode" ELSE "sc_format"
  /\ routine = "none"
  /\ LoadIdle
  /\ SwapIdle
  /\ MainIdle

SwapSelectPresentMode ==
  /\ pc = "sc_mode"
  /\ \E modes \in SUBSET PresentModes :
       LET pm == Find(PresentModePreference, modes) IN
       /\ Reads(modes, {}, NoFormats, NoCaps, <<0, 0>>)
       /\ IF pm = "none"
            THEN /\ pc' = SwapFails(example)
                 /\ UNCHANGED swapchain_config
          ELSE /\ swapchain_config' = [swapchain_config EXCEPT !.present_mode = pm]
               /\ pc' = IF example \in ResultExamples THEN "sc_alpha" ELSE "sc_from_caps"
  /\ UNCHANGED outside

SwapSelectCompositeAlpha ==
  /\ pc = "sc_alpha"
  /\ \E alphas \in SUBSET CompositeAlphas :
       LET ca == Find(CompositeAlphaPreference, alphas) IN
       /\ Reads({}, alphas, NoFormats, NoCaps, <<0, 0>>)
       /\ IF ca = "none"
            THEN /\ pc' = "sc_err"
                 /\ UNCHANGED swapchain_config
          ELSE /\ swapchain_config' = [swapchain_config EXCEPT !.composite_alpha = ca]
               /\ pc' = "sc_format"
  /\ UNCHANGED outside

SwapSelectFormat ==
  /\ pc = "sc_format"
  /\ \E pf \in FormatLists :
       /\ Reads({}, {}, pf, NoCaps, <<0, 0>>)
       /\ IF SelectedFormat(pf) = "none"
            THEN /\ pc' = SwapFails(example)
                 /\ UNCHANGED swapchain_config
          ELSE /\ swapchain_config' = [swapchain_config EXCEPT !.format = SelectedFormat(pf)]
               /\ pc' = IF example \in ResultExamples THEN "sc_extent" ELSE "sc_mode"
  /\ UNCHANGED outside

\* window.get_inner_size() is None once the window is gone
SwapSelectExtent ==
  /\ pc = "sc_extent"
  /\ \/ \E ext \in ExtentRanges, win \in WindowAreas :
          /\ Reads({}, {}, NoFormats, [NoCaps EXCEPT !.extents = ext], win)
          /\ swapchain_config' =
               [swapchain_config EXCEPT !.extent = ChosenExtent(example, ext, win)]
          /\ pc' = "sc_count"
     \/ /\ example # "triangle"
        /\ Reads({}, {}, NoFormats, NoCaps, <<0, 0>>)
        /\ pc' = "sc_err"
        /\ UNCHANGED swapchain_config
  /\ UNCHANGED outside

\* where the subtraction overflows, a build with overflow checks panics and one
\* without wraps around
SwapSelectImageCount ==
  /\ pc = "sc_count"
  /\ \E end \in ImageCountEnds :
     \E start \in ImageCountStarts(end) :
       /\ Reads({}, {}, NoFormats, [NoCaps EXCEPT !.image_count = <<start, end>>], <<0, 0>>)
       /\ \/ /\ swapchain_config' =
                  [swapchain_config EXCEPT
                     !.image_count = ImageCount(end, swapchain_config.present_mode)[2]]
             /\ pc' = "sc_usage"
          \/ /\ SubOverflows(end, U32(1))
             /\ pc' = "sc_panic"
             /\ UNCHANGED swapchain_config
  /\ UNCHANGED outside

SwapSelectUsage ==
  /\ pc = "sc_usage"
  /\ \E u \in UsageSets :
       /\ Reads({}, {}, NoFormats, [NoCaps EXCEPT !.usage = u], <<0, 0>>)
       /\ IF "COLOR_ATTACHMENT" \in u
            THEN /\ swapchain_config' =
                      [swapchain_config EXCEPT !.image_usage = "COLOR_ATTACHMENT"]
                 /\ pc' = "sc_create"
          ELSE /\ pc' = "sc_err"
               /\ UNCHANGED swapchain_config
  /\ UNCHANGED outside

\* the clear examples: assert!(caps.image_count.end > MAX_FRAMES_IN_FLIGHT) in
\* examples/clear_the_screen.rs, then SwapchainConfig::from_caps(&caps, format,
\* caps.extents.end).  gfx-hal fills the extent from caps.current_extent or the
\* default it is given, takes an image count of the supported range and a
\* composite alpha without looking at the supported ones.
SwapFromCaps ==
  /\ pc = "sc_from_caps"
  /\ \E rng \in ImageCountRanges, ext \in ExtentRanges :
     \E cur \in {<<0, 0>>, ext[1], ext[2]} :
       /\ Reads({}, {}, NoFormats,
                [NoCaps EXCEPT !.image_count = <<rng[1], U32(rng[2])>>,
                               !.extents = ext, !.current_extent = cur],
                <<0, 0>>)
       /\ IF example = "clear_example" /\ ~(rng[2] > MAX_FRAMES_IN_FLIGHT)
            THEN /\ pc' = "sc_panic"
                 /\ UNCHANGED swapchain_config
          ELSE /\ \E n \in rng[1]..rng[2], ca \in CompositeAlphas :
                    swapchain_config' =
                      [swapchain_config EXCEPT
                         !.extent = IF cur = <<0, 0>> THEN ext[2] ELSE cur,
                         !.image_count = n,
                         !.composite_alpha = ca,
                         !.image_usage = "COLOR_ATTACHMENT"]
               /\ pc' = IF example = "clear_example" THEN "sc_assert_alpha"
                        ELSE "sc_create"
  /\ UNCHANGED outside

\* assert!(composite_alphas.contains(&CompositeAlpha::Opaque));
\* swap_config.composite_alpha = CompositeAlpha::Opaque
SwapAssertOpaque ==
  /\ pc = "sc_assert_alpha"
  /\ \E alphas \in SUBSET CompositeAlphas :
       /\ Reads({}, alphas, NoFormats, NoCaps, <<0, 0>>)
       /\ IF "Opaque" \in alphas
            THEN /\ swapchain_config' =
                      [swapchain_config EXCEPT !.composite_alpha = "Opaque"]
                 /\ pc' = "sc_create"
          ELSE /\ pc' = "sc_panic"
               /\ UNCHANGED swapchain_config
  /\ UNCHANGED outside

\* device.create_swapchain(&mut surface, swapchain_config, None)
SwapCreate ==
  /\ pc = "sc_create"
  /\ Reads({}, {}, NoFormats, NoCaps, <<0, 0>>)
  /\ pc' \in {"sc_ok", SwapFails(example)}
  /\ UNCHANGED swapchain_config
  /\ UNCHANGED outside

\* the swapchain block of one run of HalState::new
NextSwap ==
  \/ SwapSelectPresentMode
  \/ SwapSelectCompositeAlpha
  \/ SwapSelectFormat
  \/ SwapSelectExtent
  \/ SwapSelectImageCount
  \/ SwapSelectUsage
  \/ SwapFromCaps
  \/ SwapAssertOpaque
  \/ SwapCreate
SpecSwap == InitSwap /\ [][NextSwap]_vars

\* ============================================================== claims
IsPrefix(a, b) == Len(a) <= Len(b) /\ \A i \in DOMAIN a : a[i] = b[i]
Has(lg, k) == \E i \in DOMAIN lg : lg[i] = k
Pos(lg, k) == CHOOSE i \in DOMAIN lg : lg[i] = k

\* the six calls the frame protocol names (the vertex write is not one of them)
ProtocolCalls(lg) == SelectSeq(lg, LAMBDA s : s # "map")
WaitFirstOrder == <<"wait", "reset", "acquire", "record", "submit", "present">>
AcquireFirstOrder == <<"acquire", "wait", "reset", "record", "submit", "present">>

\* C1: where the fence is chosen by frame slot and the command buffer by image
\* index, no command buffer is begun while an earlier submission of it is pending.
C1_NoBeginWhilePending == FenceBySlot(example) => ~beginPending

\* C2: the frames submitted and not yet completed never exceed frames_in_flight.
C2_InFlightBounded == DeviceAlive => Len(queue) <= frames_in_flight

\* C2 witness: frames_in_flight frames are pending and the host is blocked on the
\* unsignaled fence of the next frame.
C2_HostBlockedAtBound ==
  /\ pc = "wait"
  /\ Len(queue) = frames_in_flight
  /\ ~fences[FenceIdx]

\* C3 (as stated): every draw call goes wait, reset, acquire, record, submit, present.
C3_WaitResetBeforeAcquire == IsPrefix(ProtocolCalls(log), WaitFirstOrder)

\* C3 (amended): the draw calls that take the fence by frame slot go wait, reset,
\* acquire, record, submit, present; those that take it by image index go acquire,
\* wait, reset, record, submit, present.
C3_StepOrderByExample ==
  IsPrefix(ProtocolCalls(log),
           IF FenceBySlot(example) THEN WaitFirstOrder ELSE AcquireFirstOrder)

\* C3 witness: a draw call that acquired first has run to its end.
C3_AcquireFirstCallDone ==
  /\ pc = "ret_ok"
  /\ ~FenceBySlot(example)
  /\ ProtocolCalls(log) = AcquireFirstOrder

\* C4: current_frame stays in 0..frames_in_flight-1, and the n-th successful draw
\* call (from 0) used slot n mod frames_in_flight and left (n+1) mod frames_in_flight.
C4_SlotRotation ==
  DeviceAlive =>
    /\ frames_in_flight \in {2, 3}
    /\ current_frame \in 0..(frames_in_flight - 1)
    /\ pc = "ret_ok" =>
         /\ slot = (okDraws - 1) % frames_in_flight
         /\ current_frame = okDraws % frames_in_flight

\* C4 witness: a successful draw call after the slot counter has wrapped.
C4_SlotWrapped == pc = "ret_ok" /\ okDraws > frames_in_flight /\ slot = 0

\* C5: a draw call that returns Err has advanced current_frame by one slot.
C5_ErrAdvancesFrame ==
  pc = "ret_err" => current_frame = (slot + 1) % frames_in_flight

\* C6: a fence is waited on only when it is fresh from create_fence(true) or has
\* been reset and handed to a submission since its last wait.
C6_FenceCycle == pc = "wait" => fenceCycle[FenceIdx] \in {"created", "submitted"}

ListedTeardownOrder ==
  << {"depth_view", "depth_image", "depth_memory"}, {"descriptor_set_layout"},
     {"fence"}, {"render_finished"}, {"image_available"}, {"framebuffer"},
     {"image_view"},
     {"vertex_buffer", "vertex_memory", "index_buffer", "index_memory", "sampler",
      "texture_view", "texture_image", "texture_memory"},
     {"descriptor_pool"}, {"pipeline_layout"}, {"graphics_pipeline"},
     {"command_pool"}, {"render_pass"}, {"swapchain"}, {"device"}, {"instance"} >>
PoolEarlyTeardownOrder ==
  << {"fence"}, {"render_finished"}, {"image_available"}, {"command_pool"},
     {"framebuffer"}, {"image_view"}, {"render_pass"}, {"swapchain"}, {"device"},
     {"instance"} >>
RankIn(order, k) == CHOOSE r \in DOMAIN order : k \in order[r]
FollowsOrder(lg, order) ==
  /\ \A i \in DOMAIN lg : \E r \in DOMAIN order : lg[i] \in order[r]
  /\ \A i, j \in DOMAIN lg : i < j => RankIn(order, lg[i]) <= RankIn(order, lg[j])

\* C8 (as stated): every example's teardown destroys in the listed order.
C8_ListedOrderEverywhere == pc = "dropped" => FollowsOrder(destroyLog, ListedTeardownOrder)

\* C8 (amended): triangle_intro, textures and depth_buffer destroy in the listed
\* order; examples/clear_the_screen.rs destroys the command pool right after the
\* semaphores; src/bin/clear_the_screen.rs issues no destroy call.
C8_TeardownOrderByExample ==
  pc = "dropped" =>
    /\ example \in {"triangle", "textures", "depth"} =>
         destroyLog # <<>> /\ FollowsOrder(destroyLog, ListedTeardownOrder)
    /\ example = "clear_example" =>
         destroyLog # <<>> /\ FollowsOrder(destroyLog, PoolEarlyTeardownOrder)
    /\ example = "clear_bin" => destroyLog = <<>>

\* C8 witness: depth_buffer, which owns every listed kind, has been torn down.
C8_DepthTornDown ==
  /\ pc = "dropped"
  /\ example = "depth"
  /\ \A r \in DOMAIN ListedTeardownOrder : \E k \in ListedTeardownOrder[r] : Has(destroyLog, k)

\* C9: whenever X was created from Y, X is destroyed before Y.
C9_DependsOnRespected ==
  pc = "dropped" =>
    \A e \in DependsOn :
      Has(destroyLog, e[1]) /\ Has(destroyLog, e[2]) =>
        Pos(destroyLog, e[1]) < Pos(destroyLog, e[2])

\* C10: the device is released after everything created from it, the surface
\* after the device and before the instance, and the instance last.
C10_DeviceSurfaceInstanceLast ==
  pc = "dropped" =>
    /\ \A k \in DeviceChildren :
         Has(releaseLog, k) => Pos(releaseLog, k) < Pos(releaseLog, "device")
    /\ Pos(releaseLog, "device") < Pos(releaseLog, "surface")
    /\ Pos(releaseLog, "surface") < Pos(releaseLog, "instance")
    /\ releaseLog[Len(releaseLog)] = "instance"

\* C11: once a HalState has been torn down, every GPU object it created has been
\* destroyed exactly once: none is left alive and none was destroyed twice.
C11_AllDestroyedOnce == pc = "dropped" => \A k \in Kinds : live[k] = 0

\* C12: when HalState::new returns Err, every object created earlier in that
\* attempt has been destroyed.
C12_FailedNewLeavesNothing ==
  (pc = "aborted" /\ example \notin ClearExamples) => \A k \in Kinds : live[k] = 0

\* the positions of the host thread from the call of the draw operation to its Ok
DrawPcs == {"draw", "wait", "reset", "acquire", "map", "record", "submit", "present",
            "ret_ok"}
\* the examples whose main drops the HalState and builds a new one
RebuildingExamples == {"textures", "depth"}

\* C13 (as stated): in every example a draw call runs against a swapchain built
\* for the window size of the last resize event.
C13_ResizeRebuildsEverywhere == pc \in DrawPcs => extent = WindowSize

\* C13 (amended): in textures and depth_buffer every draw call runs against a
\* swapchain built for the current window size, and a HalState is built only when
\* nothing of the previous one is alive; clear_the_screen and triangle_intro keep
\* their first swapchain.
C13_RebuildOnResizeWhereHandled ==
  /\ (example \in RebuildingExamples /\ pc \in DrawPcs) => extent = WindowSize
  /\ (example \notin RebuildingExamples /\ DeviceAlive) => extent = 0
  /\ (example \notin RebuildingExamples /\ pc = "new") => draws = 0 /\ resizes = 0
  /\ pc = "new" => \A k \in Kinds : live[k] = 0

\* C13 witness: a frame was drawn after a resize, on a swapchain of the new size.
C13_DrawnAtNewSize ==
  /\ example \in RebuildingExamples
  /\ pc = "ret_ok"
  /\ resizes > 0
  /\ extent = WindowSize

\* C14 (as stated): in every example main does not leave the loop when a draw
\* call returned Err.
C14_ErrNeverEndsLoop ==
  [][(pc = "ret_err" /\ pc' # "ret_err") => after' # "exit"]_vars

\* C14 (amended): after a draw call returned Err, textures and depth_buffer drop
\* the HalState to rebuild it and go on with the loop; clear_the_screen and
\* triangle_intro leave the loop.
C14_ErrRecoveryByExample ==
  [][(pc = "ret_err" /\ pc' # "ret_err") =>
       IF example \in RebuildingExamples
         THEN pc' = "drop_wait" /\ after' = "poll"
         ELSE after' = "exit"]_vars

\* C14 witness: a draw call returned Ok after an earlier one had returned Err
\* (with no resize, only a draw error lets the loop go on past a failure).
C14_DrawnAfterErr ==
  example \in RebuildingExamples /\ failures > 0 /\ resizes = 0 /\ pc = "ret_ok"

\* C15 (as stated): the teardown of a recovery leaves the device and the instance
\* alive, and the rebuild goes on with them.
C15_DeviceSurvivesRecovery ==
  [][/\ (pc = "drop_destroy" /\ pc' = "dropped" /\ after # "exit") =>
          live'["device"] = 1 /\ live'["instance"] = 1
     /\ (pc = "new" /\ pc' \notin {"new", "aborted"} /\ after = "draw") =>
          live["device"] = 1 /\ live["instance"] = 1]_vars

\* C15 (amended): the teardown of a recovery destroys everything, the device and
\* the instance included, and the rebuild creates a new instance and device.
C15_RecoveryRestartsEverything ==
  [][/\ (pc = "drop_destroy" /\ pc' = "dropped" /\ after # "exit") =>
          \A k \in Kinds : live'[k] = 0
     /\ (pc = "new" /\ pc' \notin {"new", "aborted"}) =>
          /\ live["device"] = 0 /\ live'["device"] = 1
          /\ live["instance"] = 0 /\ live'["instance"] = 1]_vars

\* C15 witness: the first frame was drawn on the device created by the rebuild
\* after a resize.
C15_RunningOnSecondDevice ==
  pc = "ret_ok" /\ extent > 0 /\ live["device"] = 1 /\ okDraws = 1

\* C16: the one-shot command buffer holds, in this order, the barrier to
\* (transfer-write, TransferDstOptimal), the copy, the barrier to (shader-read,
\* ShaderReadOnlyOptimal); the copy executes only with the image in
\* TransferDstOptimal, and on Ok the image is in ShaderReadOnlyOptimal.
C16_UploadOrder ==
  /\ IsPrefix(cmds,
       << [op |-> "barrier", from |-> <<"empty", "Undefined">>,
           to |-> <<"TRANSFER_WRITE", "TransferDstOptimal">>],
          [op |-> "copy", from |-> <<"TRANSFER_WRITE", "TransferDstOptimal">>,
           to |-> <<"TRANSFER_WRITE", "TransferDstOptimal">>],
          [op |-> "barrier", from |-> <<"TRANSFER_WRITE", "TransferDstOptimal">>,
           to |-> <<"SHADER_READ", "ShaderReadOnlyOptimal">>] >>)
  /\ copiedIn \subseteq {"TransferDstOptimal"}
  /\ (pc = "done_ok" /\ routine = "LoadedImage") =>
       /\ Len(cmds) = 3
       /\ copiedIn = {"TransferDstOptimal"}
       /\ layout = <<"SHADER_READ", "ShaderReadOnlyOptimal">>

\* C16 witness: LoadedImage::new returned Ok after the copy had executed.
C16_UploadedAndReadable ==
  /\ pc = "done_ok"
  /\ routine = "LoadedImage"
  /\ copiedIn # {}
  /\ layout[2] = "ShaderReadOnlyOptimal"

\* the objects LoadedImage::new destroys before it returns, and those it returns
UploadTemporaries == {"upload_fence", "buffer", "buffer_memory", "cmd_buffer"}
UploadResults == {"image", "image_memory", "image_view", "sampler"}

\* C17: the upload fence starts unsignaled; the fence, the staging buffer and the
\* one-shot command buffer are destroyed, and Ok is returned, only after the
\* fence has signaled; on Ok the three are destroyed and the image, its memory,
\* view and sampler are alive.
C17_UploadSynchronous ==
  routine = "LoadedImage" =>
    /\ pc = "li_submit" => ~upload_fence
    /\ upload_fence => submitted /\ executed = Len(cmds)
    /\ \A o \in UploadTemporaries : objs[o] = "destroyed" => upload_fence
    /\ pc = "done_ok" =>
         /\ upload_fence
         /\ \A o \in UploadTemporaries : objs[o] = "destroyed"
         /\ \A o \in UploadResults : objs[o] = "alive"

\* C17 witness: the host is past the wait and has started destroying.
C17_DestroyingAfterSignal ==
  /\ routine = "LoadedImage"
  /\ pc = "li_drop_staging"
  /\ objs["upload_fence"] = "destroyed"
  /\ objs["buffer"] = "alive"

\* the indices that qualify in the selection just made
Qualifying ==
  {i \in 0..(Len(memory_types) - 1) :
     MaskBit(type_mask, i) /\ required \in memory_types[i + 1]}

\* C18: a memory type selection returns the lowest index whose bit is set in the
\* bitmask and whose properties contain the required flag; if none qualifies the
\* constructor returns Err and has allocated nothing for that object.
C18_LowestQualifyingType ==
  required # "none" =>
    IF Qualifying = {}
      THEN /\ memory_type_id = NoType
           /\ pc = "done_err"
           /\ objs[IF required = "CPU_VISIBLE" THEN "buffer_memory" ELSE "image_memory"]
                = "none"
      ELSE /\ memory_type_id \in Qualifying
           /\ \A i \in Qualifying : memory_type_id <= i
           /\ pc \in {"bb_allocate", "img_allocate"}

\* C18 witness: the selected index is 2 because index 0 has the property without
\* the bit and index 1 the bit without the property.
C18_SkippedTwoTypes ==
  /\ pc = "img_allocate"
  /\ memory_type_id = 2
  /\ required \in memory_types[1] /\ ~MaskBit(type_mask, 0)
  /\ MaskBit(type_mask, 1) /\ required \notin memory_types[2]

\* C19 (as stated): staging buffers come from a CPU-visible memory type; vertex
\* buffers, index buffers and texture/depth images from a device-local one.
C19_VisibilityByUse ==
  /\ (routine = "LoadedImage" /\ objs["buffer_memory"] = "alive") =>
       "CPU_VISIBLE" \in memProps["buffer_memory"]
  /\ (routine \in {"VertexBuffer", "IndexBuffer"} /\ objs["buffer_memory"] = "alive") =>
       "DEVICE_LOCAL" \in memProps["buffer_memory"]
  /\ objs["image_memory"] = "alive" => "DEVICE_LOCAL" \in memProps["image_memory"]

\* C19 (amended): every buffer of BufferBundle::new (staging, vertex, index) comes
\* from a CPU-visible memory type; texture and depth images from a device-local one.
C19_BuffersVisibleImagesLocal ==
  /\ objs["buffer_memory"] # "none" => "CPU_VISIBLE" \in memProps["buffer_memory"]
  /\ objs["image_memory"] # "none" => "DEVICE_LOCAL" \in memProps["image_memory"]

\* C19 witness: a vertex buffer was built on memory that is CPU-visible only.
C19_VertexBufferHostOnly ==
  /\ routine = "VertexBuffer"
  /\ pc = "done_ok"
  /\ memProps["buffer_memory"] = {"CPU_VISIBLE"}

\* comparisons of u32 values, and the remainder by a small n
LeqU32(a, b) == a[1] < b[1] \/ (a[1] = b[1] /\ a[2] <= b[2])
ModU32(a, n) == ((a[1] % n) * (Half % n) + a[2]) % n

\* C20: the row pitch P computed from alignment A and row size R satisfies
\* P >= R, P mod A = 0, and P is the smallest such value (P < R + A).
C20_RowPitchAligned ==
  (pc = "bb_create" /\ routine = "LoadedImage") =>
    /\ LeqU32(row_size, row_pitch)
    /\ ModU32(row_pitch, alignment) = 0
    /\ ~AddOverflows(row_size, U32(alignment - 1))
    /\ LeqU32(row_pitch, WrappingAdd(row_size, U32(alignment - 1)))

\* ------------------------------------------------- indices of one draw call
\* C21: in every draw call the command buffer recorded, the framebuffer rendered
\* into, the command buffer of the submission and the image given to present are
\* those of the image index this call's acquire returned.
C21_AcquiredIndexSelects ==
  /\ Has(log, "record") =>
        /\ Has(log, "acquire")
        /\ used["record_buffer"] = image_index
        /\ used["framebuffer"] = image_index
  /\ Has(log, "submit") => used["submit_buffer"] = image_index
  /\ Has(log, "present") => used["present_image"] = image_index

\* C21 witness: a draw call presented an image whose index is not its slot index,
\* on a swapchain with more images than frame slots.
C21_PresentedOffSlot ==
  /\ pc = "ret_ok"
  /\ image_count > frames_in_flight
  /\ image_index # slot
  /\ used["present_image"] = image_index

\* C22: within one draw call the submission waits on the image-available
\* semaphore given to this call's acquire, signals the render-finished semaphore
\* of the same slot, the present waits on that render-finished semaphore, and a
\* present is issued only after the submit of the same call.
C22_SemaphoreChain ==
  /\ Has(log, "acquire") => used["acquire_semaphore"] = slot
  /\ Has(log, "submit") =>
        /\ Has(log, "acquire")
        /\ used["submit_wait"] = used["acquire_semaphore"]
        /\ used["submit_signal"] = slot
  /\ Has(log, "present") =>
        /\ Has(log, "submit")
        /\ Pos(log, "submit") < Pos(log, "present")
        /\ used["present_wait"] = used["submit_signal"]

\* C22 witness: a draw call of a slot other than the acquired image index went
\* through acquire, submit and present.
C22_ChainCompleted ==
  /\ pc = "ret_ok"
  /\ image_index # slot
  /\ used["present_wait"] = slot
  /\ used["submit_wait"] = slot

\* ------------------------------------------- the swapchain configuration
\* C23: whenever HalState::new gets its swapchain, the number of frame slots
\* (frames_in_flight = image_count as usize) is 2 or 3.
C23_TwoOrThreeSlots ==
  (example \in ResultExamples /\ pc = "sc_ok") =>
    swapchain_config.image_count \in {2, 3}

\* C24: the requested image count is min(max_images - 1, 3) for Mailbox and
\* min(max_images - 1, 2) otherwise, max_images = caps.image_count.end as a u32;
\* where max_images - 1 wraps around, it is the largest u32 and the minimum is
\* the 3 or the 2.
C24_RequestedImageCount ==
  (example \in ResultExamples /\ pc = "sc_usage") =>
    LET end == caps.image_count[2]
        most == IF swapchain_config.present_mode = "Mailbox" THEN 3 ELSE 2
    IN IF end[1] = 0 /\ end[2] >= 1
         THEN swapchain_config.image_count = Min(end[2] - 1, most)
       ELSE swapchain_config.image_count = most

\* C24 witness: a Mailbox surface of at most 3 images is asked for 2.
C24_MailboxOfThree ==
  /\ pc = "sc_usage"
  /\ swapchain_config.present_mode = "Mailbox"
  /\ caps.image_count[2] = U32(3)
  /\ swapchain_config.image_count = 2

\* rank of a present mode and of a composite alpha in the stated preference
ModeRank == [Mailbox |-> 1, Fifo |-> 2, Relaxed |-> 3, Immediate |-> 4]
AlphaRank == [Opaque |-> 1, Inherit |-> 2, PreMultiplied |-> 3, PostMultiplied |-> 4]
IsBest(x, supported, rank) ==
  x \in supported /\ \A y \in supported : rank[x] <= rank[y]

\* the present-mode step has run: it selected a mode, or it failed
ModeSelected == pc \in {"sc_alpha", "sc_from_caps"}
ModeStepFailed ==
  /\ pc \in {"sc_err", "sc_panic"}
  /\ swapchain_config.present_mode = "none"
  /\ example \in ClearExamples => swapchain_config.format # "none"

\* C25: the selected present mode is the first of Mailbox, Fifo, Relaxed,
\* Immediate that the surface supports; with none of them supported, an error
\* is returned to the caller.
C25_FirstSupportedModeOrErr ==
  /\ ModeSelected =>
        IsBest(swapchain_config.present_mode, present_modes, ModeRank)
  /\ ModeStepFailed => present_modes = {} /\ pc = "sc_err"

\* C25 as the code has it: the same selection in every example; with no mode
\* supported, triangle, textures and depth return Err and the clear examples
\* panic.
C25_FirstSupportedModeElseErrOrPanic ==
  /\ ModeSelected =>
        IsBest(swapchain_config.present_mode, present_modes, ModeRank)
  /\ ModeStepFailed =>
        /\ present_modes = {}
        /\ pc = IF example \in ResultExamples THEN "sc_err" ELSE "sc_panic"

\* C25 witness: a clear example met a surface without present modes.
C25_ClearWithoutModes == example \in ClearExamples /\ ModeStepFailed

\* the composite-alpha step has run
AlphaSelected ==
  \/ example \in ResultExamples /\ pc = "sc_format"
  \/ example = "clear_example" /\ pc = "sc_create"
AlphaStepFailed ==
  \/ /\ example \in ResultExamples
     /\ pc = "sc_err"
     /\ swapchain_config.present_mode # "none"
     /\ swapchain_config.format = "none"
     /\ swapchain_config.composite_alpha = "none"
  \/ /\ example = "clear_example"
     /\ pc = "sc_panic"
     /\ swapchain_config.image_usage # "none"

\* C26: every example selects the first of Opaque, Inherit, PreMultiplied,
\* PostMultiplied the surface supports, and fails only with none supported.
C26_FirstSupportedAlphaEverywhere ==
  /\ AlphaSelected =>
        IsBest(swapchain_config.composite_alpha, composite_alphas, AlphaRank)
  /\ AlphaStepFailed => composite_alphas = {}

\* C26 as the code has it: triangle, textures and depth select the first
\* supported mode and return Err with none; examples/clear_the_screen.rs takes
\* Opaque and panics without it; src/bin/clear_the_screen.rs never looks at
\* the supported modes.
C26_AlphaByExample ==
  /\ (example \in ResultExamples /\ AlphaSelected) =>
        IsBest(swapchain_config.composite_alpha, composite_alphas, AlphaRank)
  /\ (example \in ResultExamples /\ AlphaStepFailed) => composite_alphas = {}
  /\ (example = "clear_example" /\ AlphaSelected) =>
        /\ swapchain_config.composite_alpha = "Opaque"
        /\ "Opaque" \in composite_alphas
  /\ (example = "clear_example" /\ AlphaStepFailed) => "Opaque" \notin composite_alphas
  /\ example = "clear_bin" => composite_alphas = {}

\* C26 witness: examples/clear_the_screen.rs stopped on a surface that
\* supports Inherit only.
C26_ClearRefusesInherit ==
  example = "clear_example" /\ pc = "sc_panic" /\ composite_alphas = {"Inherit"}

\* C27: the extent is the window size clamped into caps.extents in each
\* dimension: within the bounds, and the window size itself where that is
\* within the bounds.
C27_ExtentClamped ==
  (example \in ResultExamples /\ pc = "sc_count") =>
    \A d \in 1..2 :
      LET lo == caps.extents[1][d]
          hi == caps.extents[2][d]
          w == window_client_area[d]
          e == swapchain_config.extent[d]
      IN /\ lo <= e
         /\ e <= hi
         /\ (lo <= w /\ w <= hi) => e = w

\* -------------------------------------------------------- create_pipeline
ShaderModules == {"vertex_shader_module", "fragment_shader_module"}

\* C28: no shader module outlives create_pipeline: on every return path both
\* modules have been destroyed, and they are destroyed only once the graphics
\* pipeline has been created.
C28_ShaderModulesDestroyed ==
  routine = "create_pipeline" =>
    /\ pc \in {"done_ok", "done_err"} => \A m \in ShaderModules : objs[m] # "alive"
    /\ (\E m \in ShaderModules : objs[m] = "destroyed") =>
          objs["graphics_pipeline"] = "alive"

\* --------------------------------------- fences indexed by the image index
\* C29: in textures.rs and depth_buffer.rs the fence waited on and reset before
\* command buffer i is recorded is the fence given to every submission of
\* command buffer i, and command buffer i is never begun while a submission of
\* it is pending.
C29_FenceGuardsCommandBuffer ==
  example \in RebuildingExamples =>
    /\ ~beginPending
    /\ \A k \in DOMAIN queue : queue[k].fence = queue[k].cb
    /\ Has(log, "record") =>
          /\ Has(log, "wait") /\ Has(log, "reset")
          /\ FenceIdx = used["record_buffer"]
    /\ (Has(log, "record") /\ ~Has(log, "submit")) =>
          \A k \in DOMAIN queue : queue[k].cb # used["record_buffer"]

\* C29 witness: more draw calls than the swapchain has images have gone
\* through, so some command buffer was recorded again, and work is pending.
C29_RecordedAgainWhileBusy ==
  /\ example \in RebuildingExamples
  /\ pc = "submit"
  /\ okDraws >= image_count
  /\ queue # <<>>

\* C30: draw_quad_frame writes the one vertex buffer from the host only when
\* no submitted frame, all of which read that buffer, is pending on the GPU.
C30_VertexWriteWhenIdle ==
  [][(example = "textures" /\ pc = "map" /\ pc' = "record") => queue = <<>>]_vars

\* ------------------------------------------------- semaphores of a slot
\* the submissions in the queue that wait on image_available_semaphores[s] and
\* signal render_finished_semaphores[s]
PendingOnSlot(s) == {k \in DOMAIN queue : queue[k].slot = s}

\* C31: image_available_semaphores[slot] is passed to acquire_image, and
\* render_finished_semaphores[slot] to submit, only when no earlier submission
\* that waits on or signals that semaphore is still pending.
C31_SemaphoreIdleAtUse ==
  /\ pc = "acquire" => PendingOnSlot(ImageAvailableIndex(slot, image_index)) = {}
  /\ pc = "submit" => PendingOnSlot(RenderFinishedIndex(slot, image_index)) = {}

\* ------------------------------------------------- the fence of a submit
\* the submissions in the queue that will signal in_flight_fences[i]
PendingOnFence(i) == {k \in DOMAIN queue : queue[k].fence = i}

\* C32: the fence given to a submit is unsignaled and attached to no pending
\* submission when the submit is made; a fence nothing has touched since its
\* creation is signaled with no submission behind it, so the first wait on it
\* returns.
C32_FenceFreshAtSubmit ==
  /\ pc = "submit" => (~fences[FenceIdx] /\ PendingOnFence(FenceIdx) = {})
  /\ \A i \in DOMAIN fenceCycle :
       fenceCycle[i] = "created" => (fences[i] /\ PendingOnFence(i) = {})

\* C32 witness: every fence has been through a submission before, another fence
\* still has work pending, and a submit is about to reuse one.
C32_SubmitReusingFence ==
  /\ pc = "submit"
  /\ okDraws >= frames_in_flight
  /\ queue # <<>>
  /\ \A i \in DOMAIN fenceCycle : fenceCycle[i] # "created"

\* C33: whenever a draw call is at wait_for_fence, also one made on the same
\* HalState after an earlier call returned Err, the fence is signaled or a
\* pending submission will signal it, so the wait cannot block forever.
C33_WaitedFenceWillSignal ==
  pc = "wait" => (fences[FenceIdx] \/ PendingOnFence(FenceIdx) # {})

\* C34: in textures.rs and depth_buffer.rs there are at least as many fences as
\* the swapchain delivered images, so every image index acquire_image returns
\* is an index of in_flight_fences, command_buffers and framebuffers.
C34_AcquiredIndexValid ==
  example \in RebuildingExamples =>
    /\ image_count <= frames_in_flight
    /\ Has(log, "acquire") =>
         (image_index \in DOMAIN fences /\ image_index < image_count)

\* ------------------------------------------- the requested image count
\* the image count has just been written into the SwapchainConfig, and caps
\* still holds the range it was chosen against
CountChosen ==
  \/ pc = "sc_usage"
  \/ pc \in {"sc_assert_alpha", "sc_create"} /\ caps # NoCaps

\* C35: the image count HalState::new requests is never below
\* caps.image_count.start and never above caps.image_count.end, for every
\* capability value and present mode.
C35_CountWithinReportedRange ==
  CountChosen =>
    /\ caps.image_count[1] <= swapchain_config.image_count
    /\ ~SubOverflows(caps.image_count[2], U32(swapchain_config.image_count))

\* ------------------------------------------------ rows of the staging buffer
\* the rows have been written and the copy command recorded
StagedAndCopied ==
  /\ routine = "LoadedImage"
  /\ staged # <<>>
  /\ \E i \in DOMAIN cmds : cmds[i].op = "copy"

\* C36: row y of the image is written to bytes [y * row_pitch,
\* y * row_pitch + row_size) of the staging buffer, every row lies inside its
\* row_pitch * height bytes, no two rows overlap, and the buffer_width of the
\* copy times the pixel size is row_pitch.
C36_RowsInsideAndDisjoint ==
  StagedAndCopied =>
    /\ Len(staged) = height
    /\ \A y \in 1..height :
         /\ staged[y][1] = TimesUsize(row_pitch, y - 1)
         /\ staged[y][2] = AddUsize(staged[y][1], row_size)
         /\ LeqUsize(staged[y][2], TimesUsize(row_pitch, height))
         /\ \A z \in 1..(y - 1) : LeqUsize(staged[z][2], staged[y][1])
    /\ required_bytes = TimesUsize(row_pitch, height)
    /\ TimesUsize(buffer_width, PixelSize) = row_pitch

\* ------------------------------------------------- leaving the main loop
\* the positions of main between leaving the loop and the end of the process
ExitPcs == {"wait_until_idle", "drop_wait", "drop_destroy", "dropped", "done"}

\* C37: once a poll has delivered a close request main issues no further draw
\* call and builds no further HalState, it only goes through the teardown to
\* the end of the process, and it gets there; a HalState::new starts only when
\* the HalState before it has been dropped, so there is never more than one.
C37_CloseEndsLoopOneHalState ==
  /\ after = "exit" => pc \in ExitPcs
  /\ (after = "exit" /\ pc # "done") => ENABLED Next
  /\ pc = "done" => (idleWaited /\ releaseLog = DropOrder(example) \o FieldDrops(example))
  /\ live["device"] <= 1
  /\ pc = "new" => (live["device"] = 0 /\ live["instance"] = 0)

\* C37 witness: textures.rs or depth_buffer.rs rebuilt the HalState on a resize,
\* drew, was closed by a poll with no call having failed, and has ended.
C37_ClosedAfterRebuild ==
  /\ example \in RebuildingExamples
  /\ pc = "done"
  /\ resizes >= 1
  /\ draws >= 2
  /\ failures = 0
  /\ image_count <= frames_in_flight

====
